---- MODULE Spec2Model ----
(***************************************************************************)
(* gen-cli (src/main.go): the size / aspect-ratio negotiation of           *)
(* runGenerate, the response handling of callFALAPI, the progress          *)
(* goroutine showProgress, and the ratio / preset helpers.                 *)
(***************************************************************************)
EXTENDS Integers, Naturals, Sequences, FiniteSets, TLC

(***************************************************************************)
(* Bounds of the model.                                                    *)
(***************************************************************************)
\* pixel widths and heights 0..MaxDim are enumerated (plus ExtraDims)
MaxDim == 16
\* a float64 is held as NLimbs limbs of LimbBits bits, the first limb the
\* integer part, the others the fraction
LimbBits == 15
NLimbs == 6
\* at most MaxImages -i flags
MaxImages == 2
\* frames the progress indicator draws before it only waits for the stop signal
MaxTicks == 2

\* dimensions named by the specification's examples and the exact midpoints
ExtraDims == {21, 32, 1000, 1080, 1920}

Dims == (0..MaxDim) \cup ExtraDims

(***************************************************************************)
(* float64 arithmetic.  The non-negative float64 values the program meets  *)
(* lie between 2^-(Width - LimbBits - 52) and 2^LimbBits; such a value is  *)
(* a fixed-point number of Width bits, held most significant limb first.   *)
(* It is a float64 when at most Mantissa bits separate its first and last  *)
(* set bit.  Division and subtraction round to nearest, ties to even, as   *)
(* IEEE 754 does.                                                          *)
(***************************************************************************)
Mantissa == 53

Base == 2 ^ LimbBits

Width == NLimbs * LimbBits

\* the float64 of an integer 0 <= n < Base (exact)
FromInt(n) == [k \in 1..NLimbs |-> IF k = 1 THEN n ELSE 0]

\* bit p of x, 1 the most significant; 0 beyond the last
Bit(x, p) ==
  IF p > Width THEN 0
  ELSE (x[((p - 1) \div LimbBits) + 1] \div (2 ^ (LimbBits - 1 - ((p - 1) % LimbBits)))) % 2

\* index of the first set bit, Width + 1 for zero
Lead(x) ==
  IF \A k \in 1..NLimbs : x[k] = 0 THEN Width + 1
  ELSE LET k == CHOOSE i \in 1..NLimbs : x[i] # 0 /\ \A j \in 1..(i - 1) : x[j] = 0
           b == CHOOSE i \in 1..LimbBits : x[k] \div (2 ^ (LimbBits - i)) = 1
       IN  (k - 1) * LimbBits + b

\* x with the bits after bit p cleared
Truncate(x, p) ==
  [k \in 1..NLimbs |->
     IF k * LimbBits <= p THEN x[k]
     ELSE IF (k - 1) * LimbBits + 1 > p THEN 0
     ELSE x[k] - (x[k] % (2 ^ (k * LimbBits - p)))]

RECURSIVE AddAt(_, _, _)
\* x with v added into limb k, the carry rippling towards limb 1
AddAt(x, k, v) ==
  IF k = 0 THEN x
  ELSE IF x[k] + v < Base THEN [x EXCEPT ![k] = x[k] + v]
  ELSE AddAt([x EXCEPT ![k] = x[k] + v - Base], k - 1, 1)

\* round to nearest even at Mantissa significant bits; sticky says that the
\* exact value has set bits beyond the last limb
RoundNearestEven(x, sticky) ==
  LET last  == Lead(x) + Mantissa - 1
      guard == Bit(x, last + 1)
      rest  == sticky \/ \E j \in (last + 2)..Width : Bit(x, j) = 1
      up    == guard = 1 /\ (rest \/ Bit(x, last) = 1)
      limb  == ((last - 1) \div LimbBits) + 1
  IN  IF last >= Width THEN x
      ELSE IF up THEN AddAt(Truncate(x, last), limb, 2 ^ (limb * LimbBits - last))
      ELSE Truncate(x, last)

RECURSIVE FracLimbs(_, _, _)
\* the first k limbs of the fraction r / d, for 0 <= r < d
FracLimbs(r, d, k) ==
  IF k = 0 THEN << >>
  ELSE << (r * Base) \div d >> \o FracLimbs((r * Base) % d, d, k - 1)

RECURSIVE RemAfter(_, _, _)
\* the remainder left after those k limbs
RemAfter(r, d, k) ==
  IF k = 0 THEN r ELSE RemAfter((r * Base) % d, d, k - 1)

\* float64(n) / float64(d) for integers 0 <= n, 0 < d
FDiv(n, d) ==
  RoundNearestEven(<< n \div d >> \o FracLimbs(n % d, d, NLimbs - 1),
                   RemAfter(n % d, d, NLimbs - 1) # 0)

\* a < b
FLess(a, b) ==
  \E i \in 1..NLimbs : a[i] < b[i] /\ \A j \in 1..(i - 1) : a[j] = b[j]

\* the exact a - b for a >= b, then rounded: the float64 subtraction
FSubMag(a, b) ==
  LET borrow[k \in 0..NLimbs] ==
        IF k = NLimbs THEN 0
        ELSE IF a[k + 1] - b[k + 1] - borrow[k + 1] < 0 THEN 1 ELSE 0
      exact == [k \in 1..NLimbs |-> (a[k] - b[k] - borrow[k] + Base) % Base]
  IN  RoundNearestEven(exact, FALSE)

\* abs(a - b): main.go's abs applied to the float64 difference
absDiff(a, b) == IF FLess(a, b) THEN FSubMag(b, a) ELSE FSubMag(a, b)

(***************************************************************************)
(* The ratio / preset tables and helpers.                                  *)
(***************************************************************************)
\* two ratios given the same preset
ratioToPresetSwapped ==
  [r \in {"9:16", "3:4", "1:1", "4:3", "16:9"} |->
     CASE r = "9:16" -> "portrait_16_9"
       [] r = "3:4"  -> "portrait_16_9"
       [] r = "1:1"  -> "square_hd"
       [] r = "4:3"  -> "landscape_4_3"
       [] r = "16:9" -> "landscape_16_9"]

ratioToPreset ==
  [r \in {"9:16", "3:4", "1:1", "4:3", "16:9"} |->
     CASE r = "9:16" -> "portrait_16_9"
       [] r = "3:4"  -> "portrait_4_3"
       [] r = "1:1"  -> "square_hd"
       [] r = "4:3"  -> "landscape_4_3"
       [] r = "16:9" -> "landscape_16_9"]

\* Name, and Ratio as the numerator and denominator of the constant expression
aspectPresets ==
  << [Name |-> "portrait_16_9",  num |-> 9,  den |-> 16],
     [Name |-> "portrait_4_3",   num |-> 3,  den |-> 4],
     [Name |-> "square_hd",      num |-> 1,  den |-> 1],
     [Name |-> "landscape_4_3",  num |-> 4,  den |-> 3],
     [Name |-> "landscape_16_9", num |-> 16, den |-> 9] >>

\* preset.Ratio: the float64 the constant expression rounds to
presetRatio == [i \in 1..Len(aspectPresets) |-> FDiv(aspectPresets[i].num, aspectPresets[i].den)]

parseSize(s) == IF s \in DOMAIN ratioToPreset THEN ratioToPreset[s] ELSE s

\* the comparison the loop of getClosestPreset makes
closer(diff, closestDiff) == FLess(diff, closestDiff)

RECURSIVE closestLoop(_, _, _, _)
closestLoop(i, ratio, closestPreset, closestDiff) ==
  IF i > Len(aspectPresets) THEN closestPreset
  ELSE LET diff == absDiff(ratio, presetRatio[i])
       IN  IF closer(diff, closestDiff)
           THEN closestLoop(i + 1, ratio, aspectPresets[i].Name, diff)
           ELSE closestLoop(i + 1, ratio, closestPreset, closestDiff)

getClosestPreset(width, height) ==
  IF width = 0 \/ height = 0 THEN "square_hd"
  ELSE closestLoop(1, FDiv(width, height), "square_hd", FromInt(999))

\* the reverse lookup of getClosestRatio: the map is ranged over in an
\* unspecified order, so every key holding the preset is a possible result
ratiosOfPreset(preset) ==
  IF \E r \in DOMAIN ratioToPreset : ratioToPreset[r] = preset
  THEN {r \in DOMAIN ratioToPreset : ratioToPreset[r] = preset}
  ELSE {"1:1"}

getClosestRatio(width, height) == ratiosOfPreset(getClosestPreset(width, height))

(***************************************************************************)
(* The model registry.                                                     *)
(***************************************************************************)
Entry(gen, edit, auto, param) ==
  [GenPath |-> gen, EditPath |-> edit, SupportsAutoImgSize |-> auto, SizeParamName |-> param]

models ==
  [n \in {"z-turbo", "qwen", "flux2-pro", "flux2-flex", "nano-banana", "nano-banana-pro"} |->
     CASE n = "z-turbo"         -> Entry("fal-ai/z-image/turbo", "", FALSE, "image_size")
       [] n = "qwen"            -> Entry("fal-ai/qwen-image", "fal-ai/qwen-image-edit-plus", FALSE, "image_size")
       [] n = "flux2-pro"       -> Entry("fal-ai/flux-2-pro", "fal-ai/flux-2-pro/edit", TRUE, "image_size")
       [] n = "flux2-flex"      -> Entry("fal-ai/flux-2-flex", "fal-ai/flux-2-flex/edit", TRUE, "image_size")
       [] n = "nano-banana"     -> Entry("fal-ai/nano-banana", "fal-ai/nano-banana/edit", TRUE, "aspect_ratio")
       [] n = "nano-banana-pro" -> Entry("fal-ai/nano-banana-pro", "fal-ai/nano-banana-pro/edit", TRUE, "aspect_ratio")]

modelAliases == [a \in {"flux2"} |-> "flux2-pro"]

resolveModel(name) == IF name \in DOMAIN modelAliases THEN modelAliases[name] ELSE name

\* the zero value of the registry's entry type, what a failed lookup yields
NoEntry == Entry("", "", FALSE, "")

(***************************************************************************)
(* JSON values, and encoding/json's decoding of them into Go types.        *)
(***************************************************************************)
JAbsent == [t |-> "absent"]
JNull == [t |-> "null"]
JStr(s) == [t |-> "string", v |-> s]
JNum(n) == [t |-> "number", v |-> n]
JBool(b) == [t |-> "bool", v |-> b]
JArr(seq) == [t |-> "array", v |-> seq]
JObj(f) == [t |-> "object", v |-> f]

\* the value under key k of a JSON object, JAbsent when it has none
Field(o, k) == IF o.t = "object" /\ k \in DOMAIN o.v THEN o.v[k] ELSE JAbsent

\* Go types, as far as the decoded structs need them
TString == [k |-> "string"]
TInt == [k |-> "int"]
TList(elem) == [k |-> "list", elem |-> elem]
TStruct(fields) == [k |-> "struct", fields |-> fields]

RECURSIVE Fits(_, _)
\* json.Unmarshal reports no type error decoding v into the Go type ty: null
\* and missing keys leave the zero value, unknown keys are ignored
Fits(v, ty) ==
  IF v.t \in {"absent", "null"} THEN TRUE
  ELSE CASE ty.k = "string" -> v.t = "string"
         [] ty.k = "int"    -> v.t = "number"
         [] ty.k = "list"   -> v.t = "array" /\ \A i \in 1..Len(v.v) : Fits(v.v[i], ty.elem)
         [] ty.k = "struct" -> v.t = "object" /\
                               \A key \in DOMAIN ty.fields : Fits(Field(v, key), ty.fields[key])

\* a response body: its text and, when the text is JSON, the value it denotes
Body(text, isJSON, value) == [text |-> text, json |-> isJSON, value |-> value]

\* json.Unmarshal(body, &x) == nil for x of type ty
Unmarshals(body, ty) == body.json /\ Fits(body.value, ty)

\* a decoded string field (the zero value "" when null or missing)
StrOf(v) == IF v.t = "string" THEN v.v ELSE ""
\* a decoded int field
IntOf(v) == IF v.t = "number" THEN v.v ELSE 0
\* a decoded slice field
ListOf(v) == IF v.t = "array" THEN v.v ELSE << >>

detailedErrType ==
  TStruct([detail |-> TList(TStruct([msg |-> TString, type |-> TString]))])

simpleErrType == TStruct([detail |-> TString])

ImageOutputType ==
  TStruct([url |-> TString, width |-> TInt, height |-> TInt, content_type |-> TString])

ImageResponseType == TStruct([images |-> TList(ImageOutputType), seed |-> TInt])

(***************************************************************************)
(* callFALAPI's reading of the HTTP response (lines 374-412).              *)
(***************************************************************************)
NoResponse == [Images |-> << >>, Seed |-> 0]

Failure(kind, status, msg) ==
  [ok |-> FALSE, kind |-> kind, status |-> status, msg |-> msg, resp |-> NoResponse]

Success(resp) == [ok |-> TRUE, kind |-> "", status |-> 0, msg |-> "", resp |-> resp]

\* resp.StatusCode != http.StatusOK
isErrorStatus(status) == status # 200

\* the flat detail string is not looked for
apiErrorMessageListOnly(body) ==
  LET detail == Field(body.value, "detail")
  IN  IF Unmarshals(body, detailedErrType) /\ Len(ListOf(detail)) > 0
      THEN StrOf(Field(ListOf(detail)[1], "msg"))
      ELSE body.text

\* the message of the "API error" (lines 385-404)
apiErrorMessage(body) ==
  LET detail == Field(body.value, "detail")
  IN  IF Unmarshals(body, detailedErrType) /\ Len(ListOf(detail)) > 0
      THEN StrOf(Field(ListOf(detail)[1], "msg"))
      ELSE IF Unmarshals(body, simpleErrType) /\ StrOf(detail) # ""
      THEN StrOf(detail)
      ELSE body.text

decodeImageResponse(body) ==
  [Images |-> [i \in 1..Len(ListOf(Field(body.value, "images"))) |->
                 LET o == ListOf(Field(body.value, "images"))[i]
                 IN  [URL |-> StrOf(Field(o, "url")), Width |-> IntOf(Field(o, "width")),
                      Height |-> IntOf(Field(o, "height")),
                      ContentType |-> StrOf(Field(o, "content_type"))]],
   Seed |-> IntOf(Field(body.value, "seed"))]

\* what callFALAPI returns for the outcome r of client.Do and io.ReadAll
readResponse(r) ==
  IF r.kind = "transport_error" THEN Failure("API request failed", 0, "")
  ELSE IF r.kind = "read_error" THEN Failure("failed to read response", 0, "")
  ELSE IF isErrorStatus(r.status) THEN Failure("API error", r.status, apiErrorMessage(r.body))
  ELSE IF ~Unmarshals(r.body, ImageResponseType) THEN Failure("failed to parse response", 0, "")
  ELSE Success(decodeImageResponse(r.body))

(***************************************************************************)
(* The request (ImageRequest), its construction and its JSON encoding.     *)
(***************************************************************************)
Nil == [nil |-> TRUE]
Ref(x) == [nil |-> FALSE, v |-> x]

newRequest(prompt, format) ==
  [Prompt |-> prompt, ImageSize |-> Nil, AspectRatio |-> "", OutputFormat |-> format,
   ImageURLs |-> << >>, Seed |-> Nil, EnableSafetyChecker |-> FALSE]

\* the file an -i flag names: whether it can be read, whether it decodes as an
\* image, and the dimensions its header gives
ImageFile(path, readable, decodes, w, h) ==
  [path |-> path, readable |-> readable, decodes |-> decodes, w |-> w, h |-> h]

getImageDimensions(img) ==
  IF img.readable /\ img.decodes THEN [err |-> FALSE, width |-> img.w, height |-> img.h]
  ELSE [err |-> TRUE, width |-> 0, height |-> 0]

\* the auto-capable edit is tested before the user's size
sizeDirectiveAutoFirst(userSize, isEdit, info, images) ==
  IF isEdit /\ info.SupportsAutoImgSize THEN {"auto"}
  ELSE IF userSize # "" /\ userSize # "auto" THEN {userSize}
  ELSE IF isEdit /\ Len(images) > 0
       THEN LET d == getImageDimensions(images[1])
            IN  IF ~d.err THEN getClosestRatio(d.width, d.height) ELSE {""}
  ELSE IF ~isEdit THEN {"4:3"}
  ELSE {""}

\* lines 250-266: the possible values of sizeValue
sizeDirective(userSize, isEdit, info, images) ==
  IF userSize # "" /\ userSize # "auto" THEN {userSize}
  ELSE IF isEdit /\ info.SupportsAutoImgSize THEN {"auto"}
  ELSE IF isEdit /\ Len(images) > 0
       THEN LET d == getImageDimensions(images[1])
            IN  IF ~d.err THEN getClosestRatio(d.width, d.height) ELSE {""}
  ELSE IF ~isEdit THEN {"4:3"}
  ELSE {""}

\* every model's directive goes through parseSize
setSizeParamAlwaysPreset(req, info, sizeValue) ==
  IF info.SizeParamName = "aspect_ratio"
  THEN IF sizeValue # "" THEN [req EXCEPT !.AspectRatio = parseSize(sizeValue)] ELSE req
  ELSE IF sizeValue # "" THEN [req EXCEPT !.ImageSize = Ref(parseSize(sizeValue))]
  ELSE req

\* lines 274-287: the size parameter of the request
setSizeParam(req, info, sizeValue) ==
  IF info.SizeParamName = "aspect_ratio"
  THEN IF sizeValue # "" THEN [req EXCEPT !.AspectRatio = sizeValue] ELSE req
  ELSE IF sizeValue # "" /\ sizeValue # "auto"
       THEN [req EXCEPT !.ImageSize = Ref(parseSize(sizeValue))]
  ELSE IF sizeValue = "auto" THEN [req EXCEPT !.ImageSize = Ref("auto")]
  ELSE req

\* a seed of 0 is taken for "unset"
setSeedPositive(req, seedFlag) == IF seedFlag > 0 THEN [req EXCEPT !.Seed = Ref(seedFlag)] ELSE req

\* lines 288-290
setSeed(req, seedFlag) == IF seedFlag >= 0 THEN [req EXCEPT !.Seed = Ref(seedFlag)] ELSE req

\* the extension of a path, lower-cased (filepath.Ext, strings.ToLower)
extOf(path) ==
  CASE path \in {"photo.png", "missing.png"} -> ".png"
    [] path \in {"wide.JPG"} -> ".jpg"
    [] path \in {"tall.webp"} -> ".webp"
    [] OTHER -> ".txt"

\* imageToDataURI on a readable file: the MIME type and the file's content
dataURI(img) ==
  [mime |-> CASE extOf(img.path) = ".png" -> "image/png"
              [] extOf(img.path) \in {".jpg", ".jpeg"} -> "image/jpeg"
              [] extOf(img.path) = ".webp" -> "image/webp"
              [] extOf(img.path) = ".gif" -> "image/gif"
              [] OTHER -> "application/octet-stream",
   data |-> img.path]

\* json.Marshal(req): the keys present in the body and their values
marshalRequest(req) ==
  LET keys == {"prompt", "enable_safety_checker"}
              \cup (IF req.ImageSize.nil THEN {} ELSE {"image_size"})
              \cup (IF req.AspectRatio = "" THEN {} ELSE {"aspect_ratio"})
              \cup (IF req.OutputFormat = "" THEN {} ELSE {"output_format"})
              \cup (IF Len(req.ImageURLs) = 0 THEN {} ELSE {"image_urls"})
              \cup (IF req.Seed.nil THEN {} ELSE {"seed"})
  IN  [k \in keys |->
         CASE k = "prompt"        -> JStr(req.Prompt)
           [] k = "image_size"    -> JStr(req.ImageSize.v)
           [] k = "aspect_ratio"  -> JStr(req.AspectRatio)
           [] k = "output_format" -> JStr(req.OutputFormat)
           [] k = "image_urls"    -> JArr(req.ImageURLs)
           [] k = "seed"          -> JNum(req.Seed.v)
           [] k = "enable_safety_checker" -> JBool(req.EnableSafetyChecker)]

(***************************************************************************)
(* State.                                                                  *)
(***************************************************************************)
VARIABLES
  \* the invocation: the positional arguments, the credential found by
  \* getAPIKey ("" when none), and the flag variables
  args, apiKey, model, size, format, seed, inputImages,
  \* the remote service: what client.Do and io.ReadAll will yield
  server,
  \* runGenerate: position, locals, and what the process has done
  pc, info, isEditMode, modelPath, sizeValue, req, imageURLs,
  posted, httpResult, response, network, fileWritten, exitCode, stderr,
  \* showProgress: position, frames drawn, final writes made
  progress, ticks, completeWrites,
  \* a call of one of the pure helpers and its result
  pcall, pret

inputs == << args, apiKey, model, size, format, seed, inputImages, server >>

locals == << info, isEditMode, modelPath, sizeValue, req, imageURLs >>

effects == << posted, httpResult, response, network, fileWritten >>

indicator == << progress, ticks, completeWrites >>

helpers == << pcall, pret >>

vars == << inputs, pc, locals, effects, exitCode, stderr, indicator, helpers >>

(***************************************************************************)
(* Input domains.                                                          *)
(***************************************************************************)
ModelNames == DOMAIN models \cup DOMAIN modelAliases \cup {"dall-e"}

UserSizes == {"", "auto", "16:9", "2:3", "landscape_4_3"}

Seeds == {-7, -1, 0, 42}

photo == ImageFile("photo.png", TRUE, TRUE, 1920, 1080)
wide == ImageFile("wide.JPG", TRUE, TRUE, 7, 6)
notes == ImageFile("notes.txt", TRUE, FALSE, 0, 0)
missing == ImageFile("missing.png", FALSE, FALSE, 0, 0)

ImageFiles == {photo, wide, notes, missing}

\* any file first, then files that can or cannot be read
ImageLists ==
  {l \in UNION {[1..n -> ImageFiles] : n \in 0..MaxImages} :
     \A i \in 2..Len(l) : l[i] \in {photo, missing}}

image1 ==
  JObj([url |-> JStr("https://cdn/out1.png"), width |-> JNum(1024), height |-> JNum(768),
        content_type |-> JStr("image/png")])

image2 == JObj([url |-> JStr("https://cdn/out2.png")])

ErrorBodies ==
  { Body("Internal Server Error", FALSE, JNull),
    Body("{\"detail\":[{\"msg\":\"bad prompt\"}]}", TRUE,
         JObj([detail |-> JArr(<< JObj([msg |-> JStr("bad prompt")]) >>)])),
    Body("{\"detail\":[{\"msg\":\"first\",\"type\":\"value_error\"},{\"msg\":\"second\"}]}", TRUE,
         JObj([detail |-> JArr(<< JObj([msg |-> JStr("first"), type |-> JStr("value_error")]),
                                  JObj([msg |-> JStr("second")]) >>)])),
    Body("{\"detail\":[{\"loc\":\"body\"}]}", TRUE,
         JObj([detail |-> JArr(<< JObj([loc |-> JStr("body")]) >>)])),
    Body("{\"detail\":[{\"msg\":7}]}", TRUE,
         JObj([detail |-> JArr(<< JObj([msg |-> JNum(7)]) >>)])),
    Body("{\"detail\":[\"oops\"]}", TRUE, JObj([detail |-> JArr(<< JStr("oops") >>)])),
    Body("{\"detail\":[]}", TRUE, JObj([detail |-> JArr(<< >>)])),
    Body("{\"detail\":\"bad prompt\"}", TRUE, JObj([detail |-> JStr("bad prompt")])),
    Body("{\"detail\":\"\"}", TRUE, JObj([detail |-> JStr("")])),
    Body("{\"detail\":null}", TRUE, JObj([detail |-> JNull])),
    Body("{\"error\":\"quota\"}", TRUE, JObj([error |-> JStr("quota")])),
    Body("[\"x\"]", TRUE, JArr(<< JStr("x") >>)) }

ResultBodies ==
  { Body("{\"images\":[{..1}],\"seed\":7}", TRUE,
         JObj([images |-> JArr(<< image1 >>), seed |-> JNum(7)])),
    Body("{\"images\":[{..1},{..2}],\"seed\":7}", TRUE,
         JObj([images |-> JArr(<< image1, image2 >>), seed |-> JNum(7)])),
    Body("{\"images\":[],\"seed\":7}", TRUE, JObj([images |-> JArr(<< >>), seed |-> JNum(7)])),
    Body("{\"images\":null}", TRUE, JObj([images |-> JNull])),
    Body("{\"seed\":7}", TRUE, JObj([seed |-> JNum(7)])),
    Body("{\"images\":\"none\"}", TRUE, JObj([images |-> JStr("none")])) }

Statuses == {200, 201, 204, 400, 422, 500}

HTTP(status, body) == [kind |-> "http", status |-> status, body |-> body]

NoBody == Body("", FALSE, JNull)

Responses ==
  {[kind |-> "transport_error", status |-> 0, body |-> NoBody],
   [kind |-> "read_error", status |-> 200, body |-> NoBody]}
  \cup {HTTP(s, b) : s \in Statuses, b \in ErrorBodies \cup ResultBodies}

\* the answers the request-building runs are checked against
FewResponses ==
  {[kind |-> "transport_error", status |-> 0, body |-> NoBody]}
  \cup {HTTP(200, b) : b \in {x \in ResultBodies : Len(ListOf(Field(x.value, "images"))) = 1}}

SizeStrings ==
  {"", "auto", "9:16", "3:4", "1:1", "4:3", "16:9", "2:3", "21:9",
   "portrait_16_9", "portrait_4_3", "square_hd", "landscape_4_3",
   "landscape_16_9", "square"}

NoCall == [fn |-> "none", w |-> 0, h |-> 0, s |-> ""]

Pending == "<pending>"

NoError == [msg |-> "", n |-> 0, s |-> ""]

\* the state runGenerate starts in, whatever the invocation
Fresh ==
  /\ pc = "start"
  /\ info = NoEntry /\ isEditMode = FALSE /\ modelPath = "" /\ sizeValue = ""
  /\ req = newRequest("", "") /\ imageURLs = << >>
  /\ posted = Nil /\ httpResult = Nil /\ response = Nil
  /\ network = << >> /\ fileWritten = FALSE
  /\ exitCode = -1 /\ stderr = NoError
  /\ progress = "none" /\ ticks = 0 /\ completeWrites = 0

\* every flag combination; no prompt or no credential with the default flags
Init ==
  /\ \/ /\ args = << "a cat in space" >> /\ apiKey = "key"
        /\ model \in ModelNames /\ size \in UserSizes /\ seed \in Seeds
        /\ inputImages \in ImageLists
     \/ /\ \/ args = << >> /\ apiKey \in {"key", ""}
           \/ args = << "a cat in space" >> /\ apiKey = ""
        /\ model \in {"z-turbo", "dall-e"} /\ size = "" /\ seed = -1
        /\ inputImages \in {<< >>, << missing >>}
  /\ format = "png"
  /\ server \in FewResponses
  /\ Fresh
  /\ pcall = NoCall /\ pret = Pending

\* every answer of the service, for a few requests
InitAPI ==
  /\ args = << "a cat in space" >> /\ apiKey = "key"
  /\ model \in {"z-turbo", "nano-banana-pro", "dall-e"}
  /\ size = "" /\ seed \in {-1, 42}
  /\ inputImages \in {<< >>, << photo >>, << photo, missing >>}
  /\ format = "png"
  /\ server \in Responses
  /\ Fresh
  /\ pcall = NoCall /\ pret = Pending

InitHelpers ==
  /\ args = << >> /\ apiKey = "" /\ model = "z-turbo" /\ size = "" /\ format = "png"
  /\ seed = -1 /\ inputImages = << >>
  /\ server \in {[kind |-> "transport_error", status |-> 0, body |-> NoBody]}
  /\ Fresh
  /\ pcall \in [fn : {"getClosestPreset", "getClosestRatio"}, w : Dims, h : Dims, s : {""}]
               \cup [fn : {"parseSize", "ratiosOfPreset", "roundTrip"}, w : {0}, h : {0}, s : SizeStrings]
  /\ pret = Pending

(***************************************************************************)
(* runGenerate.                                                            *)
(***************************************************************************)
\* os.Exit(code), after msg went to the error stream
Exit(code, err) ==
  /\ pc' = "exit" /\ exitCode' = code /\ stderr' = err

Goto(label) ==
  /\ pc' = label /\ UNCHANGED << exitCode, stderr >>

\* lines 219-227: help when there is no prompt; getAPIKey
Start ==
  /\ pc = "start" /\ pcall = NoCall
  /\ IF Len(args) = 0 THEN Exit(0, NoError)
     ELSE IF apiKey = "" THEN Exit(1, [NoError EXCEPT !.msg = "FAL_KEY not found"])
     ELSE Goto("resolve")
  /\ UNCHANGED << inputs, locals, effects, indicator, helpers >>

\* lines 229-234
ResolveModel ==
  /\ pc = "resolve"
  /\ IF resolveModel(model) \in DOMAIN models
     THEN info' = models[resolveModel(model)] /\ Goto("path")
     ELSE info' = NoEntry /\ Exit(1, [NoError EXCEPT !.msg = "unknown model", !.s = model])
  /\ UNCHANGED << inputs, isEditMode, modelPath, sizeValue, req, imageURLs, effects,
                  indicator, helpers >>

\* lines 236-248
DeterminePath ==
  /\ pc = "path"
  /\ isEditMode' = (Len(inputImages) > 0)
  /\ IF isEditMode' /\ info.EditPath = ""
     THEN /\ Exit(1, [NoError EXCEPT !.msg = "does not support editing", !.s = model])
          /\ UNCHANGED modelPath
     ELSE /\ modelPath' = (IF isEditMode' THEN info.EditPath ELSE info.GenPath)
          /\ Goto("size")
  /\ UNCHANGED << inputs, info, sizeValue, req, imageURLs, effects, indicator, helpers >>

\* lines 250-266
DetermineSize ==
  /\ pc = "size"
  /\ sizeValue' \in sizeDirective(size, isEditMode, info, inputImages)
  /\ Goto("build")
  /\ UNCHANGED << inputs, info, isEditMode, modelPath, req, imageURLs, effects,
                  indicator, helpers >>

\* lines 268-290
BuildRequest ==
  /\ pc = "build"
  /\ req' = setSeed(setSizeParam(newRequest(args[1], format), info, sizeValue), seed)
  /\ Goto(IF isEditMode THEN "images" ELSE "call")
  /\ UNCHANGED << inputs, info, isEditMode, modelPath, sizeValue, imageURLs, effects,
                  indicator, helpers >>

\* an unreadable file is passed over and the loop ends after the last file
ReadImageSkipUnreadable ==
  /\ pc = "images" /\ Len(imageURLs) < Len(inputImages)
  /\ LET i == Len(imageURLs) + 1
     IN  imageURLs' = Append(imageURLs, dataURI(inputImages[i]))
  /\ Goto("images")
  /\ UNCHANGED << inputs, info, isEditMode, modelPath, sizeValue, req, effects,
                  indicator, helpers >>

\* lines 295-302: one turn of the loop over inputImages
ReadImage ==
  /\ pc = "images" /\ Len(imageURLs) < Len(inputImages)
  /\ LET i == Len(imageURLs) + 1
     IN  IF inputImages[i].readable
         THEN imageURLs' = Append(imageURLs, dataURI(inputImages[i])) /\ Goto("images")
         ELSE /\ UNCHANGED imageURLs
              /\ Exit(1, [msg |-> "Error reading image", n |-> i, s |-> inputImages[i].path])
  /\ UNCHANGED << inputs, info, isEditMode, modelPath, sizeValue, req, effects,
                  indicator, helpers >>

\* lines 303-304: the loop is over
ImagesRead ==
  /\ pc = "images" /\ Len(imageURLs) = Len(inputImages)
  /\ req' = [req EXCEPT !.ImageURLs = imageURLs]
  /\ Goto("call")
  /\ UNCHANGED << inputs, info, isEditMode, modelPath, sizeValue, imageURLs, effects,
                  indicator, helpers >>

(***************************************************************************)
(* callFALAPI and showProgress.                                            *)
(***************************************************************************)
\* lines 350-366: the body is encoded, the channel made, the goroutine started
CallStart ==
  /\ pc = "call"
  /\ posted' = Ref(marshalRequest(req))
  /\ progress' = "select"
  /\ Goto("http_do")
  /\ UNCHANGED << inputs, locals, httpResult, response, network, fileWritten,
                  ticks, completeWrites, helpers >>

\* lines 368-369: the one POST, answered or failed
HttpDo ==
  /\ pc = "http_do"
  /\ network' = Append(network, [method |-> "POST", url |-> modelPath])
  /\ httpResult' = Ref(server)
  /\ Goto("send")
  /\ UNCHANGED << inputs, locals, posted, response, fileWritten, indicator, helpers >>

\* line 371, the sender's half: the main path parks on the unbuffered channel
SendStop ==
  /\ pc = "send"
  /\ Goto("sending")
  /\ UNCHANGED << inputs, locals, effects, indicator, helpers >>

\* lines 419-427: the select of showProgress.  With a sender parked the receive
\* is taken and the sender released; otherwise the default draws a frame.
ProgressSelect ==
  /\ progress = "select" /\ pc # "exit"
  /\ IF pc = "sending"
     THEN /\ progress' = "final" /\ Goto("println")
          /\ UNCHANGED ticks
     ELSE /\ ticks < MaxTicks
          /\ ticks' = ticks + 1
          /\ progress' = "sleep"
          /\ UNCHANGED << pc, exitCode, stderr >>
  /\ UNCHANGED << inputs, locals, effects, completeWrites, helpers >>

\* line 426: the sleep ends
ProgressWake ==
  /\ progress = "sleep" /\ pc # "exit"
  /\ progress' = "select"
  /\ UNCHANGED << inputs, pc, locals, effects, exitCode, stderr, ticks, completeWrites, helpers >>

\* lines 421-422: the final write, then the goroutine returns
ProgressComplete ==
  /\ progress = "final" /\ pc # "exit"
  /\ completeWrites' = completeWrites + 1
  /\ progress' = "returned"
  /\ UNCHANGED << inputs, pc, locals, effects, exitCode, stderr, ticks, helpers >>

\* lines 372-412: the main path after the send
ReadResponse ==
  /\ pc = "println"
  /\ response' = Ref(readResponse(httpResult.v))
  /\ Goto("returned")
  /\ UNCHANGED << inputs, locals, posted, httpResult, network, fileWritten, indicator, helpers >>

(***************************************************************************)
(* runGenerate, after the call.                                            *)
(***************************************************************************)
\* lines 314-323
CheckResponse ==
  /\ pc = "returned"
  /\ IF ~response.v.ok
     THEN Exit(1, [msg |-> response.v.kind, n |-> response.v.status, s |-> response.v.msg])
     ELSE IF Len(response.v.resp.Images) = 0
     THEN Exit(1, [NoError EXCEPT !.msg = "No images returned"])
     ELSE Goto("download")
  /\ UNCHANGED << inputs, locals, effects, indicator, helpers >>

\* lines 325-339: downloadImage fetches the first image and writes the file
Download ==
  /\ pc = "download"
  /\ network' = Append(network, [method |-> "GET", url |-> response.v.resp.Images[1].URL])
  /\ \E outcome \in {"saved", "get failed", "create failed", "copy failed"} :
       /\ fileWritten' = (outcome \in {"saved", "copy failed"})
       /\ IF outcome = "saved" THEN Goto("saved")
          ELSE Exit(1, [NoError EXCEPT !.msg = "Error saving image", !.s = outcome])
  /\ UNCHANGED << inputs, locals, posted, httpResult, response, indicator, helpers >>

\* lines 341-347: the report, and the return to main
Finish ==
  /\ pc = "saved"
  /\ Exit(0, NoError)
  /\ UNCHANGED << inputs, locals, effects, indicator, helpers >>

Next ==
  \/ Start
  \/ ResolveModel
  \/ DeterminePath
  \/ DetermineSize
  \/ BuildRequest
  \/ ReadImage
  \/ ImagesRead
  \/ CallStart
  \/ HttpDo
  \/ SendStop
  \/ ProgressSelect
  \/ ProgressWake
  \/ ProgressComplete
  \/ ReadResponse
  \/ CheckResponse
  \/ Download
  \/ Finish

Spec == Init /\ [][Next]_vars

SpecAPI == InitAPI /\ [][Next]_vars

(***************************************************************************)
(* The pure helpers, applied to enumerated arguments.                      *)
(***************************************************************************)
unchangedRun == << inputs, pc, locals, effects, exitCode, stderr, indicator >>

EvalGetClosestPreset ==
  /\ pcall.fn = "getClosestPreset" /\ pret = Pending
  /\ pret' = getClosestPreset(pcall.w, pcall.h)
  /\ UNCHANGED << pcall, unchangedRun >>

EvalGetClosestRatio ==
  /\ pcall.fn = "getClosestRatio" /\ pret = Pending
  /\ pret' \in getClosestRatio(pcall.w, pcall.h)
  /\ UNCHANGED << pcall, unchangedRun >>

EvalParseSize ==
  /\ pcall.fn = "parseSize" /\ pret = Pending
  /\ pret' = parseSize(pcall.s)
  /\ UNCHANGED << pcall, unchangedRun >>

EvalRatiosOfPreset ==
  /\ pcall.fn = "ratiosOfPreset" /\ pret = Pending
  /\ pret' \in ratiosOfPreset(pcall.s)
  /\ UNCHANGED << pcall, unchangedRun >>

EvalRoundTrip ==
  /\ pcall.fn = "roundTrip" /\ pret = Pending
  /\ pret' \in ratiosOfPreset(parseSize(pcall.s))
  /\ UNCHANGED << pcall, unchangedRun >>

NextHelpers ==
  \/ EvalGetClosestPreset
  \/ EvalGetClosestRatio
  \/ EvalParseSize
  \/ EvalRatiosOfPreset
  \/ EvalRoundTrip

SpecHelpers == InitHelpers /\ [][NextHelpers]_vars

(***************************************************************************)
(* Fair scheduling: every goroutine that can take a step eventually does,  *)
(* the sleep of showProgress ends, and client.Do returns (its Timeout).    *)
(***************************************************************************)
SpecAPIFair == SpecAPI /\ WF_vars(Next) /\ WF_vars(ProgressSelect) /\ WF_vars(ProgressWake)

\* the main path is never left parked on the stop signal
StopSignalTaken == (pc = "sending") ~> (pc # "sending")

\* the main path passes the send only once the indicator took the signal, and
\* the indicator draws frames only up to then
StopBeforeContinue ==
  /\ progress \in {"select", "sleep"} => pc \in {"http_do", "send", "sending"}
  /\ pc \in {"println", "returned", "download", "saved"} => progress \in {"final", "returned"}
  /\ completeWrites <= 1

(***************************************************************************)
(* What the properties below are stated in.                                *)
(***************************************************************************)
\* the invocation runs the generator: with no prompt runGenerate prints the
\* help text and reads none of the flags
Generating == Len(args) > 0

Edit == Len(inputImages) > 0

KnownModel == resolveModel(model) \in DOMAIN models

\* DetermineSize has run
SizeResolved == modelPath # "" /\ pc # "size"

\* the request has gone to callFALAPI
Posted == ~posted.nil

Answered == ~response.nil

\* the five reference ratios, width : height, with their presets and ratio strings
References ==
  << [n |-> 9,  d |-> 16, preset |-> "portrait_16_9",  ratio |-> "9:16"],
     [n |-> 3,  d |-> 4,  preset |-> "portrait_4_3",   ratio |-> "3:4"],
     [n |-> 1,  d |-> 1,  preset |-> "square_hd",      ratio |-> "1:1"],
     [n |-> 4,  d |-> 3,  preset |-> "landscape_4_3",  ratio |-> "4:3"],
     [n |-> 16, d |-> 9,  preset |-> "landscape_16_9", ratio |-> "16:9"] >>

Magnitude(x) == IF x < 0 THEN -x ELSE x

\* |w/h - reference i| <= |w/h - reference j|, in exact arithmetic
NoFarther(w, h, i, j) ==
  Magnitude(w * References[i].d - References[i].n * h) * References[j].d
    <= Magnitude(w * References[j].d - References[j].n * h) * References[i].d

\* the references at the least exact distance from w/h
Nearest(w, h) == {i \in 1..5 : \A j \in 1..5 : NoFarther(w, h, i, j)}

Earliest(S) == CHOOSE i \in S : \A j \in S : i <= j

PresetCall == pcall.fn = "getClosestPreset" /\ pret # Pending

(***************************************************************************)
(* C1: the size directive follows the strict priority: a user size other   *)
(* than "" and "auto" verbatim; else, editing with an auto-capable model,  *)
(* "auto"; else, editing, the nearest-ratio match (getClosestRatio) of the *)
(* first image's decoded dimensions, or none when it does not decode, the  *)
(* run going on to build the request; else (generating) "4:3".             *)
(***************************************************************************)
C1_SizePriority ==
  SizeResolved =>
    LET entry   == models[resolveModel(model)]
        explicit == size # "" /\ size # "auto"
        first   == inputImages[1]
    IN  /\ explicit => sizeValue = size
        /\ ~explicit /\ Edit /\ entry.SupportsAutoImgSize => sizeValue = "auto"
        /\ ~explicit /\ Edit /\ ~entry.SupportsAutoImgSize =>
             IF first.readable /\ first.decodes
             THEN sizeValue \in getClosestRatio(first.w, first.h)
             ELSE /\ sizeValue = ""
                  /\ pc = "build" => ENABLED BuildRequest
                  /\ pc = "exit" /\ network = << >> => stderr.msg = "Error reading image"
        /\ ~explicit /\ ~Edit => sizeValue = "4:3"

C1_Witness ==
  /\ pc = "images" /\ size = "auto" /\ Edit /\ ~info.SupportsAutoImgSize
  /\ ~inputImages[1].decodes /\ sizeValue = "" /\ Len(imageURLs) = 1

(***************************************************************************)
(* C2: the directive goes unchanged into aspect_ratio for an aspect_ratio  *)
(* model, and into image_size for an image_size model: "auto" as it is,    *)
(* anything else through Ratio->Preset.  At most one of the two fields is  *)
(* in the request, none when there is no directive.                        *)
(***************************************************************************)
C2_Materialization ==
  Posted =>
    LET body   == posted.v
        param  == models[resolveModel(model)].SizeParamName
        preset == IF \E i \in 1..5 : References[i].ratio = sizeValue
                  THEN References[CHOOSE i \in 1..5 : References[i].ratio = sizeValue].preset
                  ELSE sizeValue
    IN  /\ ~({"aspect_ratio", "image_size"} \subseteq DOMAIN body)
        /\ sizeValue = "" => "aspect_ratio" \notin DOMAIN body /\ "image_size" \notin DOMAIN body
        /\ param = "aspect_ratio" /\ sizeValue # "" =>
             "image_size" \notin DOMAIN body /\ "aspect_ratio" \in DOMAIN body
             /\ body["aspect_ratio"] = JStr(sizeValue)
        /\ param = "image_size" /\ sizeValue # "" =>
             "aspect_ratio" \notin DOMAIN body /\ "image_size" \in DOMAIN body
             /\ body["image_size"] = JStr(IF sizeValue = "auto" THEN "auto" ELSE preset)
        /\ model = "z-turbo" /\ ~Edit /\ size = "" =>
             "image_size" \in DOMAIN body /\ body["image_size"] = JStr("landscape_4_3")
        /\ model = "nano-banana-pro" /\ Edit /\ size = "" =>
             "aspect_ratio" \in DOMAIN body /\ body["aspect_ratio"] = JStr("auto")
             /\ "image_size" \notin DOMAIN body

C2_Witness ==
  /\ Posted /\ model = "nano-banana" /\ size = "16:9" /\ Edit
  /\ "aspect_ratio" \in DOMAIN posted.v /\ posted.v["aspect_ratio"] = JStr("16:9")

(***************************************************************************)
(* C3: an unknown model, an edit with a model that has no edit path, or an *)
(* edit with an input image that cannot be read ends the run with exit     *)
(* code 1 and without any network call: nothing is posted, nothing is      *)
(* downloaded, and no request with a part of the images goes out.          *)
(***************************************************************************)
\* the steps of runGenerate that come before callFALAPI, but for DetermineSize
Preparation ==
  \/ Start \/ ResolveModel \/ DeterminePath \/ BuildRequest
  \/ ReadImage \/ ImagesRead

Rejected ==
  \/ ~KnownModel
  \/ Edit /\ KnownModel /\ models[resolveModel(model)].EditPath = ""
  \/ Edit /\ \E i \in 1..Len(inputImages) : ~inputImages[i].readable

C3_RejectedBeforeNetwork ==
  Generating /\ Rejected =>
    /\ network = << >> /\ ~Posted /\ ~fileWritten /\ progress = "none"
    /\ pc = "exit" => exitCode = 1 /\ stderr.msg # ""
    /\ pc # "exit" => \/ ENABLED Preparation
                      \/ pc = "size" /\ sizeDirective(size, isEditMode, info, inputImages) # {}

C3_Witness ==
  /\ pc = "exit" /\ exitCode = 1 /\ stderr.msg = "Error reading image" /\ stderr.n = 2
  /\ KnownModel /\ Len(imageURLs) = 1 /\ network = << >>

(***************************************************************************)
(* C4: on a non-success status the message of the "API error" is the msg   *)
(* of the first entry when detail is a non-empty list of objects (their    *)
(* msg and type strings), the detail when it is a non-empty string, and    *)
(* the raw body otherwise; the error carries the status code.              *)
(***************************************************************************)
ErrorObject(v) ==
  /\ v.t = "object"
  /\ \A k \in {"msg", "type"} \cap DOMAIN v.v : v.v[k].t = "string"

ExpectedMessage(body) ==
  LET detail == IF body.json /\ body.value.t = "object" /\ "detail" \in DOMAIN body.value.v
                THEN body.value.v["detail"] ELSE JAbsent
  IN  IF detail.t = "array" /\ Len(detail.v) > 0 /\ \A i \in 1..Len(detail.v) : ErrorObject(detail.v[i])
      THEN (IF "msg" \in DOMAIN detail.v[1].v THEN detail.v[1].v["msg"].v ELSE "")
      ELSE IF detail.t = "string" /\ detail.v # "" THEN detail.v
      ELSE body.text

C4_ErrorShapes ==
  Answered /\ httpResult.v.kind = "http" /\ httpResult.v.status \notin 200..299 =>
    /\ ~response.v.ok /\ response.v.kind = "API error"
    /\ response.v.status = httpResult.v.status
    /\ response.v.msg = ExpectedMessage(httpResult.v.body)
    /\ httpResult.v.body.text \in {"{\"detail\":[{\"msg\":\"bad prompt\"}]}", "{\"detail\":\"bad prompt\"}"}
         => response.v.msg = "bad prompt"
    /\ pc = "exit" => exitCode = 1 /\ stderr.msg = "API error" /\ stderr.n = httpResult.v.status
                      /\ stderr.s = response.v.msg

C4_Witness ==
  /\ pc = "exit" /\ stderr.msg = "API error" /\ stderr.n = 422 /\ stderr.s = "bad prompt"
  /\ httpResult.v.body.text = "{\"detail\":\"bad prompt\"}"

(***************************************************************************)
(* C5: a response with a success status and an empty image list is a       *)
(* failure reported as "No images returned", with exit code 1 and no       *)
(* download; a file is written only after a response with an image.        *)
(***************************************************************************)
EmptyImageList(body) ==
  /\ body.json /\ body.value.t = "object" /\ "images" \in DOMAIN body.value.v
  /\ body.value.v["images"] = JArr(<< >>)

C5_EmptyResultFails ==
  /\ pc = "exit" /\ ~httpResult.nil /\ httpResult.v.kind = "http"
       /\ httpResult.v.status \in 200..299 /\ EmptyImageList(httpResult.v.body)
     => /\ exitCode = 1 /\ stderr.msg = "No images returned"
        /\ Len(network) = 1 /\ ~fileWritten
  /\ fileWritten => Answered /\ response.v.ok /\ Len(response.v.resp.Images) >= 1

(***************************************************************************)
(* C6: every 2xx response is handled as a success, its body decoded as a   *)
(* result; only the other statuses are read as one of the error shapes.    *)
(***************************************************************************)
C6_StatusClasses ==
  Answered /\ httpResult.v.kind = "http" =>
    (response.v.kind = "API error" <=> httpResult.v.status \notin 200..299)

(***************************************************************************)
(* C7: the request has a seed field exactly when the seed flag is not      *)
(* negative, and then the field is the flag's value, 0 included.           *)
(***************************************************************************)
C7_SeedField ==
  Posted =>
    /\ "seed" \in DOMAIN posted.v <=> seed >= 0
    /\ seed >= 0 => posted.v["seed"] = JNum(seed)

C7_Witness == Posted /\ seed = 0 /\ "seed" \in DOMAIN posted.v /\ posted.v["seed"] = JNum(0)

(***************************************************************************)
(* C8, as claimed: square_hd for a zero width or height, else the preset   *)
(* nearest to width/height, the earlier of two that are equally near.      *)
(***************************************************************************)
C8_NearestPreset ==
  PresetCall =>
    pret = IF pcall.w = 0 \/ pcall.h = 0 THEN "square_hd"
           ELSE References[Earliest(Nearest(pcall.w, pcall.h))].preset

(***************************************************************************)
(* C9: Ratio->Preset then Preset->Ratio gives back each of the five ratio  *)
(* strings; Ratio->Preset leaves every other string as it is; Preset->Ratio *)
(* of a preset outside the table is "1:1".                                 *)
(***************************************************************************)
FiveRatios == {"9:16", "3:4", "1:1", "4:3", "16:9"}

C9_RoundTrip ==
  pret # Pending =>
    /\ pcall.fn = "roundTrip" /\ pcall.s \in FiveRatios => pret = pcall.s
    /\ pcall.fn = "parseSize" /\ pcall.s \notin FiveRatios => pret = pcall.s
    /\ pcall.fn = "parseSize" /\ pcall.s \in FiveRatios =>
         \E i \in 1..5 : References[i].ratio = pcall.s /\ References[i].preset = pret
    /\ pcall.fn = "ratiosOfPreset" /\ (\A i \in 1..5 : References[i].preset # pcall.s) => pret = "1:1"

C9_Witness == pcall.fn = "roundTrip" /\ pcall.s = "9:16" /\ pret = "9:16"

(***************************************************************************)
(* C10: once the call has returned the indicator takes the stop signal,    *)
(* makes its one final write and ends: a run that started the indicator    *)
(* does not end before that write.                                         *)
(***************************************************************************)
C10_FinalWrite ==
  pc = "exit" /\ progress # "none" => progress = "returned" /\ completeWrites = 1

====
